---- MODULE Spec2Model ----
(***************************************************************************)
(* local_visualizer: a script appends HTML fragments to one file through   *)
(* LocalViz / HtmlGenerator while a background HTTP server thread serves   *)
(* the working directory.                                                  *)
(*                                                                         *)
(* A Python str is modelled as a sequence of tokens (each token a TLA+     *)
(* string), and a file's content as the sequence of tokens written to it.  *)
(***************************************************************************)
EXTENDS Integers, Sequences, FiniteSets, TLC

\* ---------------------------------------------------------------- bounds
\* Number of API calls the script makes.
MaxCalls == 3
\* Number of names tempfile.mkstemp can hand out.
MaxTmp == 2

\* ------------------------------------------------------- program constants
None == "None"
NL == "\n"
HEADER_LEVELS == 1..5
HTML_BEGIN_BOILERPLATE == "\n<!DOCTYPE html>\n<html>\n    <head>...</head>\n    <body>\n"
HTML_END_BOILERPLATE == "\n    </body>\n    </html>\n"

\* ----------------------------------------------------------------- inputs
\* Arguments the script passes.
Texts == {"X"}
Levels == 0..6
DataFrames == {"df"}
Pngs == {"PNG"}
UserPath == "t.html"
TmpPaths == {"tmp" \o ToString(i) \o ".html" : i \in 1..MaxTmp}
Paths == {UserPath} \cup TmpPaths
\* What a file left by an earlier run holds.
OldContent == <<"old">>

VARIABLES
    fs,          \* the working directory: path -> [exists, data]
    html_file,   \* LocalViz.html_file
    run_server,  \* LocalViz.run_server
    html_gen,    \* output_fl of the HtmlGenerator in use (LocalViz._html_gen), or None
    is_started,  \* LocalViz.is_started
    attrs,       \* names of the callables start() copied onto the LocalViz instance
    portBound,   \* (localhost, port) is bound by some socket
    serving,     \* the daemon thread of run_bgd_server is running
    client,      \* the class the script instantiates: "LocalViz" or "HtmlGenerator"
    pc,          \* main thread: "idle", or the call whose file append is in progress
    buf,         \* text of the append in progress not yet handed to the file
    wfl,         \* file the append in progress has open
    served,      \* the last response of the background server
    last,        \* the last call: [op, err, named, text, level]
    fs0,         \* the working directory when the last call was made
    s0,          \* the session when the last call was made
    frags,       \* texts passed to write() since the writer's construction began
    before,      \* content of the writer's file when its construction began
    clean,       \* the writer is constructed and its file was only appended to since
    calls        \* number of API calls made

sessVars == <<html_file, run_server, html_gen, is_started, attrs>>
netVars == <<portBound, serving>>
ioVars == <<pc, buf, wfl>>
histVars == <<last, fs0, s0, frags, before, clean, calls>>
vars == <<fs, sessVars, netVars, client, ioVars, served, histVars>>

\* ------------------------------------------------------------ file system
NoFile == [exists |-> FALSE, data |-> <<>>]
File(d) == [exists |-> TRUE, data |-> d]

\* Mutant: the file is opened without truncation ('a' for 'w').
OpenTruncate_keep(f) == IF f.exists THEN f ELSE File(<<>>)

\* open(path, 'w'): the file exists afterwards and is empty.
OpenTruncate(f) == File(<<>>)

\* Mutant: the append handle truncates ('w+' for 'a+').
OpenAppend_truncate(f) == File(<<>>)

\* open(path, 'a+'): the file exists afterwards and keeps what it held.
OpenAppend(f) == IF f.exists THEN f ELSE File(<<>>)

\* Mutant: the write lands at the start of the file.
RawAppend_front(d, chunk) == chunk \o d

\* Mutant: the write replaces what the file held.
RawAppend_over(d, chunk) == chunk

\* A raw write through a handle opened in append mode lands at the end.
RawAppend(d, chunk) == d \o chunk

\* os.remove(path)
Remove(f) == NoFile

\* ------------------------------------------------------------- rendering
\* Mutant: the level is clamped into HEADER_LEVELS before formatting.
header_fmt_clamped(text, level) ==
    LET l == IF level < 1 THEN 1 ELSE IF level > 5 THEN 5 ELSE level IN
    << "<h" \o ToString(l) \o ">", text, "</h" \o ToString(l) \o ">" >>

\* '<h{lvl}>{text}</h{lvl}>'.format(text=text, lvl=level)
header_fmt(text, level) ==
    << "<h" \o ToString(level) \o ">", text, "</h" \o ToString(level) \o ">" >>

\* '<p>{t}</p>'.format(t=text)
p_fmt(text) == << "<p>", text, "</p>" >>

br_text == << "<br/>" >>

hr_text == << "<br/>", "<hr/>", "<br/>" >>

\* base64.b64encode(...).decode('ascii') on the inputs of Pngs
b64encode(png) == CASE png = "PNG" -> "UE5H"

\* '<img src="data:image/png;base64,{fig_png}" width="500"><br/>'
img_fmt(png) ==
    << "<img src=\"data:image/png;base64,", b64encode(png), "\" width=\"500\">", "<br/>" >>

\* pandas.DataFrame.to_html() of the frames of DataFrames
to_html(df) == << "<table border=\"1\" class=\"dataframe\">", df, "</table>" >>

\* isinstance(text_or_df, str): arguments are [str |-> BOOLEAN, val |-> ...]
AsText(text_or_df) ==
    IF text_or_df.str THEN text_or_df.val ELSE to_html(text_or_df.val)

\* '{s}\n'.format(s=text)
Line(text) == text \o <<NL>>

Str(v) == [str |-> TRUE, val |-> v]
Df(v) == [str |-> FALSE, val |-> v]

\* ------------------------------------------------------------ call frames
Snapshot ==
    [html_file |-> html_file, html_gen |-> html_gen, is_started |-> is_started,
     attrs |-> attrs, run_server |-> run_server, portBound |-> portBound,
     serving |-> serving]

Outcome(op, err, named, text, level) ==
    [op |-> op, err |-> err, named |-> named, text |-> text, level |-> level]

\* The script makes its next call: the main thread is single-threaded and
\* synchronous, so the previous call has returned.
Enter ==
    /\ pc = "idle"
    /\ calls < MaxCalls
    /\ calls' = calls + 1
    /\ fs0' = fs
    /\ s0' = Snapshot

\* The call raises before it touches anything.
Raise(op, err, named, text, level) ==
    /\ last' = Outcome(op, err, named, text, level)
    /\ UNCHANGED <<fs, sessVars, netVars, client, ioVars, served, frags, before, clean>>

\* ------------------------------------------------------ HtmlGenerator.write
\* with open(self.output_fl, 'a+') as outfile: outfile.write('{s}\n'...)
\* From directory d: the file is opened (and created when missing) and the
\* line is handed to the buffered stream; RawWrite below carries it to the
\* file.  k names the caller to return to.
write(d, fl, text_or_df, k) ==
    /\ fs' = [d EXCEPT ![fl] = OpenAppend(@)]
    /\ buf' = Line(AsText(text_or_df))
    /\ wfl' = fl
    /\ pc' = k
    /\ frags' = Append(IF k = "write" THEN frags ELSE <<>>, AsText(text_or_df))

\* Names of the public callables of an HtmlGenerator instance: its methods and
\* the h<lvl> partials its constructor sets for lvl in HEADER_LEVELS.
GenCallables ==
    {"header", "p", "br", "hr", "figure", "write"}
        \cup {"h" \o ToString(lvl) : lvl \in HEADER_LEVELS}

\* The stream hands buffered text to the file: all of it, or a first part of
\* it (nothing in write() makes the append one indivisible step for a reader).
\* When the last part is out, the with-block closes the file and the call
\* returns to its caller:
\*   "write": a content call returns;
\*   "init":  HtmlGenerator.__init__ sets h1..h5 and returns to the script;
\*   "start": HtmlGenerator.__init__ returns to LocalViz.start, which attaches
\*            the generator, copies its callables and sets is_started.
RawWrite ==
    /\ pc # "idle"
    /\ \E k \in 1..Len(buf) :
        /\ fs' = [fs EXCEPT ![wfl] = File(RawAppend(@.data, SubSeq(buf, 1, k)))]
        /\ buf' = SubSeq(buf, k + 1, Len(buf))
        /\ IF k < Len(buf)
           THEN UNCHANGED <<pc, wfl, sessVars, clean>>
           ELSE /\ pc' = "idle"
                /\ wfl' = None
                /\ CASE pc = "write" -> UNCHANGED <<sessVars, clean>>
                     [] pc = "init" ->
                            /\ html_gen' = wfl
                            /\ clean' = TRUE
                            /\ UNCHANGED <<html_file, run_server, is_started, attrs>>
                     [] pc = "start" ->
                            /\ html_gen' = wfl
                            /\ attrs' = GenCallables
                            /\ is_started' = TRUE
                            /\ clean' = TRUE
                            /\ UNCHANGED <<html_file, run_server>>
    /\ UNCHANGED <<netVars, client, served, last, fs0, s0, frags, before, calls>>

\* ------------------------------------------------- HtmlGenerator.__init__
\* self.output_fl = output_fl; self.write(HTML_BEGIN_BOILERPLATE); ...
HtmlGenerator_init(d, fl, k) ==
    /\ before' = (IF d[fl].exists THEN d[fl].data ELSE <<>>)
    /\ clean' = FALSE
    /\ write(d, fl, Str(<<HTML_BEGIN_BOILERPLATE>>), k)

\* The script constructs an HtmlGenerator itself.
NewHtmlGenerator ==
    /\ Enter
    /\ client = "HtmlGenerator"
    /\ last' = Outcome("HtmlGenerator", "ok", "", "", 0)
    /\ HtmlGenerator_init(fs, UserPath, "init")
    /\ UNCHANGED <<sessVars, netVars, client, served>>

\* ---------------------------------------------------------- run_bgd_server
\* Mutant: the server falls back to another port instead of raising.
BindFails_fallback(bound) == FALSE

\* BaseHTTPServer.HTTPServer(server_address=(host, port), ...) binds in its
\* constructor and raises when the address is already bound.
BindFails(bound) == bound

\* The server is bound and its daemon thread started.
run_bgd_server ==
    /\ portBound' = TRUE
    /\ serving' = TRUE

\* ------------------------------------------------------------ LocalViz.start
\* if self.html_file: open(self.html_file, 'w').close()
\* else: _, self.html_file = tempfile.mkstemp(dir=os.getcwd(), suffix='.html')
\* The paths start() can end up with; either way the file exists and is empty
\* when the HtmlGenerator is constructed on it.
StartPaths ==
    IF html_file # None THEN {html_file} ELSE {t \in TmpPaths : ~fs[t].exists}

start ==
    /\ Enter
    /\ client = "LocalViz"
    /\ IF run_server /\ BindFails(portBound)
       THEN Raise("start", "OSError", "", "", 0)
       ELSE /\ IF run_server THEN run_bgd_server ELSE UNCHANGED netVars
            /\ \E path \in StartPaths :
                /\ html_file' = path
                /\ HtmlGenerator_init([fs EXCEPT ![path] = OpenTruncate(@)], path, "start")
            /\ last' = Outcome("start", "ok", "", "", 0)
            /\ UNCHANGED <<run_server, html_gen, is_started, attrs, client, served>>

\* --------------------------------------------------- validate_lviz_started
\* if not self.is_started: raise RuntimeError('{f} was called before ...')
validate_lviz_started(started) == started

\* ------------------------------------------------ HtmlGenerator's methods
header(text, level) == write(fs, html_gen, Str(header_fmt(text, level)), "write")

p(text) == write(fs, html_gen, Str(p_fmt(text)), "write")

br == write(fs, html_gen, Str(br_text), "write")

hr == write(fs, html_gen, Str(hr_text), "write")

\* The with-block of figure() ran to its end: the figure is saved, encoded
\* and written.
figure(png) == write(fs, html_gen, Str(img_fmt(png)), "write")

\* functools.partial(self.header, level=lvl), under the name h<lvl>
ShortcutLevel(name) == CHOOSE lvl \in HEADER_LEVELS : name = "h" \o ToString(lvl)

\* ------------------------------------------------------------ the script
\* The calls the script can make on a generator method name: header with any
\* integer level, and among the h<lvl> names the first and last the
\* constructor sets and h6, which the class docstring promises.
ShortcutLevels == {1, 5, 6}

Requests ==
    {[name |-> "header", text |-> t, level |-> l, arg |-> Str(<<>>)] :
        t \in Texts, l \in Levels}
    \cup {[name |-> "h" \o ToString(l), text |-> t, level |-> l, arg |-> Str(<<>>)] :
        t \in Texts, l \in ShortcutLevels}
    \cup {[name |-> "p", text |-> t, level |-> 0, arg |-> Str(<<>>)] : t \in Texts}
    \cup {[name |-> n, text |-> "", level |-> 0, arg |-> Str(<<>>)] : n \in {"br", "hr"}}
    \cup {[name |-> "figure", text |-> g, level |-> 0, arg |-> Str(<<>>)] : g \in Pngs}
    \cup {[name |-> "write", text |-> "", level |-> 0, arg |-> Str(<<t>>)] : t \in Texts}
    \cup {[name |-> "write", text |-> "", level |-> 0, arg |-> Df(d)] : d \in DataFrames}

\* obj.<name>(...) for a name among the callables the object has.
Invoke(req) ==
    CASE req.name = "header" -> header(req.text, req.level)
      [] req.name = "p" -> p(req.text)
      [] req.name = "br" -> br
      [] req.name = "hr" -> hr
      [] req.name = "figure" -> figure(req.text)
      [] req.name = "write" -> write(fs, html_gen, req.arg, "write")
      [] OTHER -> header(req.text, ShortcutLevel(req.name))

\* Attribute lookup, then the call.
Dispatch(req, callables) ==
    IF req.name \in callables
    THEN /\ last' = Outcome(req.name, "ok", "", req.text, req.level)
         /\ Invoke(req)
         /\ UNCHANGED <<sessVars, netVars, client, served, before, clean>>
    ELSE Raise(req.name, "AttributeError", req.name, req.text, req.level)

\* lviz.<name>(...): LocalViz defines none of these names itself; start()
\* copies them from the generator onto the instance.
LvizCall ==
    /\ Enter
    /\ client = "LocalViz"
    /\ \E req \in Requests : Dispatch(req, attrs)

\* gen.<name>(...) on an HtmlGenerator the script constructed.
GenCall ==
    /\ Enter
    /\ client = "HtmlGenerator"
    /\ html_gen # None
    /\ \E req \in Requests : Dispatch(req, GenCallables)

\* ------------------------------------------------------------ LocalViz.close
\* Mutant: close() writes the closing tags only when the file lacks them.
close_once ==
    /\ Enter
    /\ client = "LocalViz"
    /\ IF ~is_started
       THEN Raise("close", "RuntimeError", "close", "", 0)
       ELSE IF \E i \in 1..Len(fs[html_gen].data) :
                    fs[html_gen].data[i] = HTML_END_BOILERPLATE
            THEN Raise("close", "ok", "", "", 0)
            ELSE /\ last' = Outcome("close", "ok", "", "", 0)
                 /\ write(fs, html_gen, Str(<<HTML_END_BOILERPLATE>>), "write")
                 /\ UNCHANGED <<sessVars, netVars, client, served, before, clean>>

close ==
    /\ Enter
    /\ client = "LocalViz"
    /\ IF ~validate_lviz_started(is_started)
       THEN Raise("close", "RuntimeError", "close", "", 0)
       ELSE /\ last' = Outcome("close", "ok", "", "", 0)
            /\ write(fs, html_gen, Str(<<HTML_END_BOILERPLATE>>), "write")
            /\ UNCHANGED <<sessVars, netVars, client, served, before, clean>>

\* --------------------------------------------------- LocalViz.inform_cleanup
inform_cleanup ==
    /\ Enter
    /\ client = "LocalViz"
    /\ IF ~validate_lviz_started(is_started)
       THEN Raise("inform_cleanup", "RuntimeError", "inform_cleanup", "", 0)
       ELSE Raise("inform_cleanup", "ok", "", "", 0)

\* ---------------------------------------------------- delete_files_silently
\* for each_file in files: try: os.remove(each_file) except OSError: pass
\* os.remove(None) raises TypeError, which the except clause does not catch.
\* Result: the directory afterwards and the exception that escaped, if any.
RECURSIVE delete_files_silently(_, _)
delete_files_silently(files, d) ==
    IF files = <<>> THEN [fs |-> d, err |-> "ok"]
    ELSE LET each_file == Head(files) IN
         IF each_file = None THEN [fs |-> d, err |-> "TypeError"]
         ELSE IF ~d[each_file].exists
              THEN delete_files_silently(Tail(files), d)
              ELSE delete_files_silently(Tail(files),
                                         [d EXCEPT ![each_file] = Remove(@)])

\* --------------------------------------------------------- LocalViz.del_html
\* delete_files_silently([self.html_file]); self.html_file = None
del_html ==
    /\ Enter
    /\ client = "LocalViz"
    /\ IF ~validate_lviz_started(is_started)
       THEN Raise("del_html", "RuntimeError", "del_html", "", 0)
       ELSE LET r == delete_files_silently(<<html_file>>, fs) IN
            /\ fs' = r.fs
            /\ html_file' = (IF r.err = "ok" THEN None ELSE html_file)
            /\ last' = Outcome("del_html", r.err, "", "", 0)
            /\ clean' = (clean /\ r.fs[html_gen] = fs[html_gen])
            /\ UNCHANGED <<run_server, html_gen, is_started, attrs, netVars,
                           client, ioVars, served, frags, before>>

\* ------------------------------------------------- the background server
\* server.serve_forever in the daemon thread: a GET for a path of the working
\* directory is answered with the bytes the file holds at that moment, or 404.
\* The browser asks for the document the session names (the "Click:" line of
\* start) or still writes to.
Document == {html_file, html_gen} \ {None}

NoResponse ==
    [status |-> 0, path |-> None, body |-> <<>>, inscope |-> FALSE, frags |-> <<>>]

ServerRead ==
    /\ serving
    /\ \E path \in Document :
        served' = IF fs[path].exists
                  THEN [status |-> 200, path |-> path, body |-> fs[path].data,
                        inscope |-> (path = html_gen /\ is_started /\ clean),
                        frags |-> frags]
                  ELSE [status |-> 404, path |-> path, body |-> <<>>,
                        inscope |-> FALSE, frags |-> <<>>]
    /\ UNCHANGED <<fs, sessVars, netVars, client, ioVars, histVars>>

\* ------------------------------------------------------------------ Init
\* A script that has constructed LocalViz(lazy=True, html_file, run_server)
\* (lazy=False is the same constructor followed by start()), or one about to
\* use HtmlGenerator directly.  t.html may be left over from an earlier run,
\* and the port may be held by another process.
Init ==
    /\ client \in {"LocalViz", "HtmlGenerator"}
    /\ \E f \in {NoFile, File(OldContent)} :
        fs = [path \in Paths |-> IF path = UserPath THEN f ELSE NoFile]
    /\ html_file \in (IF client = "LocalViz" THEN {None, UserPath} ELSE {None})
    /\ run_server \in (IF client = "LocalViz" THEN BOOLEAN ELSE {FALSE})
    /\ portBound \in (IF client = "LocalViz" /\ run_server THEN BOOLEAN ELSE {FALSE})
    /\ html_gen = None
    /\ is_started = FALSE
    /\ attrs = {}
    /\ serving = FALSE
    /\ pc = "idle"
    /\ buf = <<>>
    /\ wfl = None
    /\ served = NoResponse
    /\ last = Outcome("__init__", "ok", "", "", 0)
    /\ fs0 = fs
    /\ s0 = Snapshot
    /\ frags = <<>>
    /\ before = <<>>
    /\ clean = FALSE
    /\ calls = 0

Next ==
    \/ start
    \/ LvizCall
    \/ close
    \/ inform_cleanup
    \/ del_html
    \/ NewHtmlGenerator
    \/ GenCall
    \/ RawWrite

Spec == Init /\ [][Next]_vars

\* The same script with a browser asking the background server for files.
NextServed == Next \/ ServerRead

SpecServed == Init /\ [][NextServed]_vars
\* ================================================================ claims
IsPrefix(a, b) == Len(a) <= Len(b) /\ SubSeq(b, 1, Len(a)) = a

\* The texts fs[1..n], each followed by one newline, in order.
RECURSIVE Joined(_, _)
Joined(fr, n) == IF n = 0 THEN <<>> ELSE Joined(fr, n - 1) \o fr[n] \o <<"\n">>

Occurrences(tok, d) == Cardinality({i \in 1..Len(d) : d[i] = tok})

\* What the file at path held in directory d (nothing when it is missing).
Held(d, path) == IF d[path].exists THEN d[path].data ELSE <<>>

Returned == pc = "idle"

\* ---- C1
\* C1 (as stated): once a writer is constructed and N >= 1 appends have
\* returned, the file holds the preamble and the N fragments in call order,
\* each newline-terminated, and nothing else.
C1_PreambleThenFragments ==
    (Returned /\ clean /\ Len(frags) >= 2)
        => /\ frags[1] = <<HTML_BEGIN_BOILERPLATE>>
           /\ fs[html_gen] = File(Joined(frags, Len(frags)))

\* C1 (amended): the file holds what it held when the writer's construction
\* began, then the preamble and the N fragments in call order, each
\* newline-terminated; for a writer constructed by start() that is the
\* preamble and the fragments alone.
C1_AppendsInCallOrder ==
    (Returned /\ clean)
        => /\ frags[1] = <<HTML_BEGIN_BOILERPLATE>>
           /\ fs[html_gen] = File(before \o Joined(frags, Len(frags)))
           /\ (client = "LocalViz" => before = <<>>)

\* Two different fragments were appended after the construction.
C1_Witness ==
    /\ Returned /\ clean /\ Len(frags) = 3
    /\ frags[2] # frags[3]
    /\ fs[html_gen].data = before \o Joined(frags, 3)

\* ---- C2
ContentOps ==
    {"header", "p", "br", "hr", "write", "figure", "close"}
        \cup {"h" \o ToString(lvl) : lvl \in HEADER_LEVELS}

\* C2: a content operation on a LocalViz that was not started fails with the
\* invalid-state error (RuntimeError) naming the operation, and no file is
\* created or written.
C2_UnstartedIsInvalidState ==
    (client = "LocalViz" /\ ~s0.is_started /\ last.op \in ContentOps)
        => /\ last.err = "RuntimeError"
           /\ last.named = last.op
           /\ fs = fs0

\* ---- C3
Constructed == Returned /\ last.op \in {"start", "HtmlGenerator"} /\ last.err = "ok"

\* C3 (as stated): right after a writer is constructed on a path the file
\* holds exactly the preamble, whatever the path held before.
C3_ConstructionLeavesPreamble ==
    Constructed => fs[html_gen] = File(<<HTML_BEGIN_BOILERPLATE, "\n">>)

\* C3 (amended): start() leaves the file holding exactly the preamble,
\* whether the path was missing or held content; HtmlGenerator constructed
\* directly keeps what the file held and appends the preamble to it.
C3_StartLeavesPreamble ==
    Constructed
        => fs[html_gen] =
             File((IF last.op = "start" THEN <<>> ELSE Held(fs0, html_gen))
                    \o <<HTML_BEGIN_BOILERPLATE, "\n">>)

\* start() has run on a path that held content of an earlier run.
C3_Witness ==
    /\ Constructed /\ last.op = "start"
    /\ fs0[html_gen] = File(OldContent)
    /\ fs[html_gen].exists
\* ---- C4
\* C4 (as stated): a read of the document of a started session, taken while
\* it only appends, returns the preamble and the first k whole
\* newline-terminated fragments in call order, for some k up to the number of
\* appends issued; never a part of a fragment.
C4_ReadsSeeWholeFragments ==
    served.inscope
        => \E k \in 1..Len(served.frags) : served.body = Joined(served.frags, k)

\* C4 (amended): such a read returns the whole preamble, every fragment
\* whose call had returned, whole and in call order, and then nothing or a
\* leading part of the one fragment whose append was in progress.
C4_ReadsSeePrefix ==
    served.inscope
        => LET n == Len(served.frags) IN
           /\ n >= 1
           /\ served.frags[1] = <<HTML_BEGIN_BOILERPLATE>>
           /\ IsPrefix(<<HTML_BEGIN_BOILERPLATE, "\n">>, served.body)
           /\ IsPrefix(Joined(served.frags, n - 1), served.body)
           /\ IsPrefix(served.body, Joined(served.frags, n))

\* A read taken in the middle of the second append.
C4_Witness ==
    /\ served.inscope /\ served.status = 200
    /\ Len(served.frags) = 3
    /\ Len(served.body) > Len(Joined(served.frags, 2))
    /\ Len(served.body) < Len(Joined(served.frags, 3))

\* ---- C5
OnStarted == client = "LocalViz" /\ Returned /\ s0.is_started

OnlyGrew == \A path \in Paths :
    fs0[path].exists
        => fs[path].exists /\ IsPrefix(fs0[path].data, fs[path].data)

\* C5 (as stated): on a started session every operation other than
\* del_html -- start included -- leaves each file holding what it held
\* before, possibly followed by more.
C5_AppendOnlyButDelete ==
    (OnStarted /\ last.op # "del_html") => OnlyGrew

\* C5 (amended): the same for every operation other than del_html and
\* start (start() truncates the file it is given).
C5_AppendOnlyButDeleteAndStart ==
    (OnStarted /\ last.op \notin {"del_html", "start"}) => OnlyGrew

\* close() returned on a started session whose file held fragments.
C5_Witness ==
    /\ OnStarted /\ last.op = "close" /\ last.err = "ok"
    /\ Len(Held(fs0, html_gen)) > 2
    /\ fs # fs0

\* ---- C6
\* C6: whenever the session's output file exists between operations, it
\* begins with the preamble and holds the preamble exactly once.
C6_PreambleOnceAtStart ==
    (client = "LocalViz" /\ Returned /\ html_gen # None /\ fs[html_gen].exists)
        => /\ IsPrefix(<<HTML_BEGIN_BOILERPLATE>>, fs[html_gen].data)
           /\ Occurrences(HTML_BEGIN_BOILERPLATE, fs[html_gen].data) = 1

\* ---- C7
EndsWithClosing(d) ==
    /\ Len(d) >= 2
    /\ d[Len(d) - 1] = HTML_END_BOILERPLATE
    /\ d[Len(d)] = "\n"

\* C7 (as stated): the closing fragment occurs in the output file at most
\* once, and when it occurs nothing follows it.
C7_ClosingOnceAndLast ==
    (client = "LocalViz" /\ Returned /\ html_gen # None /\ fs[html_gen].exists)
        => LET d == fs[html_gen].data IN
           /\ Occurrences(HTML_END_BOILERPLATE, d) <= 1
           /\ Occurrences(HTML_END_BOILERPLATE, d) = 1 => EndsWithClosing(d)

\* C7 (amended): every close() on a started session appends the closing
\* fragment once, at the end of the file as it then is; the file holds it
\* once per close() call, and later appends follow it.
C7_EachCloseAppendsClosing ==
    /\ (OnStarted /\ last.op = "close")
          => /\ last.err = "ok"
             /\ fs[html_gen] =
                  File(Held(fs0, html_gen) \o <<HTML_END_BOILERPLATE, "\n">>)
    /\ (client = "LocalViz" /\ Returned /\ clean)
          => Occurrences(HTML_END_BOILERPLATE, fs[html_gen].data)
               = Cardinality({i \in 1..Len(frags) :
                                frags[i] = <<HTML_END_BOILERPLATE>>})

\* close() returned for the second time.
C7_Witness ==
    /\ OnStarted /\ last.op = "close" /\ clean
    /\ Occurrences(HTML_END_BOILERPLATE, fs[html_gen].data) = 2

\* ---- C8
\* C8: del_html() on a started session returns normally, whether the file
\* exists, is missing, or was deleted by an earlier del_html().
C8_DeleteNeverRaises ==
    (OnStarted /\ last.op = "del_html") => last.err = "ok"

\* ---- C9
HeaderReturned == Returned /\ last.op = "header" /\ last.err = "ok"

HeadingTag(level) ==
    CASE level = 0 -> <<"<h0>", "</h0>">>
      [] level = 1 -> <<"<h1>", "</h1>">>
      [] level = 2 -> <<"<h2>", "</h2>">>
      [] level = 3 -> <<"<h3>", "</h3>">>
      [] level = 4 -> <<"<h4>", "</h4>">>
      [] level = 5 -> <<"<h5>", "</h5>">>
      [] level = 6 -> <<"<h6>", "</h6>">>

AppendedHeading(level) ==
    fs[html_gen] =
        File(Held(fs0, html_gen)
               \o <<HeadingTag(level)[1], last.text, HeadingTag(level)[2], "\n">>)

\* C9 (as stated): header(text, level) with a level in 1..5 appends exactly
\* one heading of that level around the text; with any other level it
\* appends no heading.
C9_HeaderLevelsConstrained ==
    HeaderReturned
        => IF last.level \in 1..5 THEN AppendedHeading(last.level) ELSE fs = fs0

\* C9 (amended): header(text, level) with a level in 1..5 appends exactly
\* one heading of that level around the text; it does not check the level,
\* and with any other level it appends <h{level}>text</h{level}> just the
\* same.
C9_HeaderAppendsAnyLevel ==
    HeaderReturned
        => /\ AppendedHeading(last.level)
           /\ \A path \in Paths \ {html_gen} : fs[path] = fs0[path]

\* header() returned for a level in 1..5 and for a level outside.
C9_Witness ==
    /\ HeaderReturned /\ last.level = 5 /\ last.text = "X"
    /\ \E i \in 1..Len(frags) : frags[i] = <<"<h6>", "X", "</h6>">>

\* ---- C10
\* C10: start() with run_server set and the port already bound raises the
\* bind error, and leaves the session, the server and every file as they
\* were: no retry, no other port, not started, no writer, no file created,
\* truncated or written.
C10_BindFailureChangesNothing ==
    (last.op = "start" /\ s0.run_server /\ s0.portBound)
        => /\ Returned
           /\ last.err = "OSError"
           /\ fs = fs0
           /\ Snapshot = s0
           /\ (~s0.is_started => (~is_started /\ html_gen = None /\ attrs = {}))

\* start() failed on a session whose path holds content of an earlier run.
C10_Witness ==
    /\ last.op = "start" /\ last.err = "OSError"
    /\ ~is_started /\ html_file = UserPath
    /\ fs[UserPath] = File(OldContent)
====
